---------------------------- MODULE Spec2Model ----------------------------
(***************************************************************************)
(* Model of the Medellin tourism analytics service:                        *)
(*   - src/server.py: the query and reset endpoints and the three-stage    *)
(*     response normalisation done inside the query endpoint;              *)
(*   - src/Agente_analista.py: MedellinTourismAgent (conversation history) *)
(*     and AmadeusFlightAnalytics (the six report operations).             *)
(*                                                                         *)
(* Texts are sequences of lexical tokens:                                  *)
(*   "fence" a code-fence marker (three backticks)                         *)
(*   "j"    a letter (a \w character that starts no JSON literal)          *)
(*   "1"    a digit (also a \w character)                                  *)
(*   " "    a whitespace character                                         *)
(*   "s", "respuesta_texto", ...  JSON string literals, quotes included     *)
(*   "{" "}" "[" "]" ":" ","  the JSON punctuation                         *)
(***************************************************************************)
EXTENDS Integers, Sequences, FiniteSets, TLC

VARIABLES
    searches_df,      \* AmadeusFlightAnalytics.searches_df
    bookings_df,      \* AmadeusFlightAnalytics.bookings_df
    report,           \* outcome of the last report operation
    agent_ready,      \* server.py global agent is not None
    chat_history,     \* MedellinTourismAgent.chat_history
    sent,             \* the messages handed to the runtime by the last invoke
    runtime_response, \* what the runtime gave back to the last invoke
    ret,              \* outcome of the last MedellinTourismAgent.query
    question,         \* the question of the last query request
    http,             \* the last endpoint response
    last_call,        \* the endpoint served last
    prev_call,        \* the endpoint served before it
    response_str,     \* query_agent: raw text returned by the agent
    response_data,    \* query_agent: the normalised structure
    norm_stage,       \* which normaliser stage produced response_data
    calls,            \* the requests being served at once, and where each is
    observed          \* the races seen so far (an observer, not program state)

engine_vars == <<searches_df, bookings_df, report>>
agent_vars == <<agent_ready, chat_history, sent, runtime_response, ret,
                question, http, last_call, prev_call>>
norm_vars == <<response_str, response_data, norm_stage>>
conc_vars == <<calls, observed>>
vars == <<searches_df, bookings_df, report, agent_ready, chat_history, sent,
          runtime_response, ret, question, http, last_call, prev_call,
          response_str, response_data, norm_stage, calls, observed>>

-----------------------------------------------------------------------------
(* Bounds *)

MaxCore == 3    \* longest exhaustively enumerated core of a normaliser input
MaxHist == 4    \* longest conversation history
MaxRows == 2    \* most rows in a dataset

-----------------------------------------------------------------------------
(* Python values: what json.loads returns and what jsonify receives *)

PyNone == [t |-> "none", v |-> 0]
JNum(n) == [t |-> "num", v |-> n]
JStr(s) == [t |-> "str", v |-> s]
JArr(a) == [t |-> "arr", v |-> a]
JObj(f) == [t |-> "obj", v |-> f]
\* a Python str holding a text of the model (a token sequence)
PyText(s) == [t |-> "text", v |-> s]

EmptyDict == <<>>

Put(d, key, val) ==
    [x \in (DOMAIN d) \cup {key} |-> IF x = key THEN val ELSE d[x]]

\* Python truthiness of a value (not response_data is ~Truthy)
Truthy(x) ==
    CASE x.t = "none" -> FALSE
      [] x.t = "num"  -> x.v # 0
      [] x.t = "str"  -> x.v # ""
      [] x.t = "text" -> x.v # <<>>
      [] x.t = "arr"  -> x.v # <<>>
      [] x.t = "obj"  -> DOMAIN x.v # {}
      [] OTHER        -> TRUE

-----------------------------------------------------------------------------
(* json.loads, as called at server.py:125 and server.py:134 *)

Fence == "fence"
WordTokens == {"j", "1"}          \* the tokens \w matches
SpaceTokens == {" "}              \* the tokens \s matches
\* JSON string literals: the three keys of the response schema and "s"
StringTokens == {"s", "respuesta_texto", "respuesta_tabla", "respuesta_grafica"}

ParseFail == [ok |-> FALSE, val |-> PyNone, pos |-> 0]
ParseOk(val, pos) == [ok |-> TRUE, val |-> val, pos |-> pos]

RECURSIVE SkipWs(_, _)
\* index of the first non-whitespace token of s at or after i
SkipWs(s, i) ==
    IF i <= Len(s) /\ s[i] \in SpaceTokens THEN SkipWs(s, i + 1) ELSE i

RECURSIVE ParseDigits(_, _, _)
\* a run of digits starting at i, read as a decimal integer
ParseDigits(s, i, acc) ==
    IF i <= Len(s) /\ s[i] = "1"
    THEN ParseDigits(s, i + 1, 10 * acc + 1)
    ELSE ParseOk(JNum(acc), i)

RECURSIVE ParseValue(_, _)
RECURSIVE ParseMembers(_, _, _)
RECURSIVE ParseElements(_, _, _)

\* the members of an object, s[i] being where a key is expected
ParseMembers(s, i, acc) ==
    IF i > Len(s) \/ s[i] \notin StringTokens THEN ParseFail
    ELSE LET c == SkipWs(s, i + 1) IN
         IF c > Len(s) \/ s[c] # ":" THEN ParseFail
         ELSE LET r == ParseValue(s, SkipWs(s, c + 1)) IN
              IF ~r.ok THEN ParseFail
              ELSE LET e == SkipWs(s, r.pos)
                       d == Put(acc, s[i], r.val)  \* a repeated key: last wins
                   IN  IF e > Len(s) THEN ParseFail
                       ELSE IF s[e] = "}" THEN ParseOk(JObj(d), e + 1)
                       ELSE IF s[e] = ","
                            THEN ParseMembers(s, SkipWs(s, e + 1), d)
                       ELSE ParseFail

\* the elements of an array, s[i] being where a value is expected
ParseElements(s, i, acc) ==
    LET r == ParseValue(s, i) IN
    IF ~r.ok THEN ParseFail
    ELSE LET e == SkipWs(s, r.pos)
             a == Append(acc, r.val)
         IN  IF e > Len(s) THEN ParseFail
             ELSE IF s[e] = "]" THEN ParseOk(JArr(a), e + 1)
             ELSE IF s[e] = ","
                  THEN ParseElements(s, SkipWs(s, e + 1), a)
             ELSE ParseFail

\* one JSON value starting exactly at s[i]
ParseValue(s, i) ==
    IF i > Len(s) THEN ParseFail
    ELSE CASE s[i] = "{" ->
                LET n == SkipWs(s, i + 1) IN
                IF n <= Len(s) /\ s[n] = "}"
                THEN ParseOk(JObj(EmptyDict), n + 1)
                ELSE ParseMembers(s, n, EmptyDict)
           [] s[i] = "[" ->
                LET n == SkipWs(s, i + 1) IN
                IF n <= Len(s) /\ s[n] = "]"
                THEN ParseOk(JArr(<<>>), n + 1)
                ELSE ParseElements(s, n, <<>>)
           [] s[i] \in StringTokens -> ParseOk(JStr(s[i]), i + 1)
           [] s[i] = "1" -> ParseDigits(s, i, 0)
           [] OTHER -> ParseFail

\* json.loads(s): one value, whitespace around it allowed, nothing after it;
\* ok = FALSE stands for json.JSONDecodeError
JsonLoads(s) ==
    LET r == ParseValue(s, SkipWs(s, 1)) IN
    IF r.ok /\ SkipWs(s, r.pos) > Len(s) THEN r ELSE ParseFail

-----------------------------------------------------------------------------
(* The Response Normalizer: server.py query_agent, lines 114-144 *)

RECURSIVE LStrip(_)
LStrip(s) == IF s # <<>> /\ Head(s) \in SpaceTokens THEN LStrip(Tail(s)) ELSE s

RECURSIVE RStrip(_)
RStrip(s) ==
    IF s # <<>> /\ s[Len(s)] \in SpaceTokens
    THEN RStrip(SubSeq(s, 1, Len(s) - 1)) ELSE s

\* str.strip()
Strip(s) == RStrip(LStrip(s))

RECURSIVE DropWhile(_, _)
DropWhile(s, set) ==
    IF s # <<>> /\ Head(s) \in set THEN DropWhile(Tail(s), set) ELSE s

\* re.sub of line 120: a leading fence, then \w*, then \s*, removed
SubLeadingFence(s) ==
    IF s # <<>> /\ Head(s) = Fence
    THEN DropWhile(DropWhile(Tail(s), WordTokens), SpaceTokens)
    ELSE s

\* re.sub of line 121: \s* and a trailing fence removed
SubTrailingFence(s) ==
    IF s # <<>> /\ s[Len(s)] = Fence
    THEN RStrip(SubSeq(s, 1, Len(s) - 1))
    ELSE s

\* line 118: clean_str contains a fence
HasFence(s) == \E i \in 1..Len(s) : s[i] = Fence

\* clean_str as handed to the first json.loads (lines 117-121)
CleanStr(s) ==
    LET c == Strip(s) IN
    IF HasFence(c) THEN SubTrailingFence(SubLeadingFence(c)) ELSE c

\* str.find('{'): the index of the first "{", 0 when there is none
Find(s) ==
    IF \E i \in 1..Len(s) : s[i] = "{"
    THEN CHOOSE i \in 1..Len(s) :
            s[i] = "{" /\ \A j \in 1..(i - 1) : s[j] # "{"
    ELSE 0

\* str.rfind('}'): the index of the last "}", 0 when there is none
RFind(s) ==
    IF \E i \in 1..Len(s) : s[i] = "}"
    THEN CHOOSE i \in 1..Len(s) :
            s[i] = "}" /\ \A j \in (i + 1)..Len(s) : s[j] # "}"
    ELSE 0

\* response_str[start:end] of lines 130-133 (1-based, both ends included)
JsonCandidate(s) == SubSeq(s, Find(s), RFind(s))

WrapTextStripped(s) == JObj([respuesta_texto |-> PyText(Strip(s))])

\* lines 139 and 142: the raw text wrapped as the narrative field
WrapText(s) == JObj([respuesta_texto |-> PyText(s)])

FinalizeInverted(s, data) == IF Truthy(data) THEN WrapText(s) ELSE data

\* lines 141-142: a falsy result is replaced by the wrapped raw text
Finalize(s, data) == IF ~Truthy(data) THEN WrapText(s) ELSE data

\* lines 114-144: [data, stage]; stage "a" = direct parse, "b" = heuristic
\* substring, "c" = except-branch wrap, "d" = the if-not-response_data wrap
Normalize(s) ==
    LET a == JsonLoads(CleanStr(s)) IN
    IF a.ok
    THEN [data |-> Finalize(s, a.val),
          stage |-> IF Truthy(a.val) THEN "a" ELSE "d"]
    ELSE IF Find(s) = 0
         THEN [data |-> Finalize(s, PyNone), stage |-> "d"]
         ELSE LET b == JsonLoads(JsonCandidate(s)) IN
              IF b.ok
              THEN [data |-> Finalize(s, b.val),
                    stage |-> IF Truthy(b.val) THEN "b" ELSE "d"]
              ELSE [data |-> Finalize(s, WrapText(s)), stage |-> "c"]

-----------------------------------------------------------------------------
(* The Conversation Agent: MedellinTourismAgent *)

\* {"role": "user", "content": question}, line 756
UserEntry(q) == [form |-> "dict", role |-> "user", content |-> q]

\* what the runtime may append: message objects with a content attribute,
\* dicts with a content key, and entries exposing neither
RuntimeEntry(form, c) ==
    [form |-> form, role |-> "ai", content |-> IF form = "bare" THEN <<>> ELSE c]

\* the runtime's rendering of input dicts as message objects
AsObjects(h) == [i \in 1..Len(h) |-> [h[i] EXCEPT !.form = "obj"]]

\* str() of a history entry and of the runtime's response, as token texts:
\* a Python repr, single-quoted, never a JSON text
ReprEntry(e) ==
    IF e.form = "obj" THEN <<"j">> ELSE <<"{", "j", ":", "j", "}">>

RECURSIVE ReprEntries(_)
ReprEntries(h) ==
    IF h = <<>> THEN <<>>
    ELSE IF Len(h) = 1 THEN ReprEntry(h[1])
    ELSE ReprEntry(h[1]) \o <<",", " ">> \o ReprEntries(Tail(h))

PyStr(resp) ==
    IF resp.kind = "dict"
    THEN <<"{", "j", ":", " ", "[">> \o ReprEntries(resp.messages) \o <<"]", "}">>
    ELSE <<"j">>

ResetMemoryKeeps(hist) == hist

\* reset_memory, lines 748-751: the history it leaves
ResetMemory(hist) == <<>>

QueryKeepsHistory(hist, q, resp) ==
    LET h1 == Append(hist, UserEntry(q)) IN
    IF resp.kind = "raise"
    THEN [hist |-> h1, sent |-> h1, raised |-> TRUE, text |-> <<>>]
    ELSE IF resp.kind = "dict"
    THEN LET last == resp.messages[Len(resp.messages)] IN
         [hist |-> h1, sent |-> h1, raised |-> FALSE,
          text |-> IF last.form \in {"obj", "dict"}
                   THEN last.content ELSE PyStr(resp)]
    ELSE [hist |-> h1, sent |-> h1, raised |-> FALSE, text |-> PyStr(resp)]

QueryRollsBack(hist, q, resp) ==
    LET h1 == Append(hist, UserEntry(q)) IN
    IF resp.kind = "raise"
    THEN [hist |-> hist, sent |-> h1, raised |-> TRUE, text |-> <<>>]
    ELSE IF resp.kind = "dict"
    THEN LET last == resp.messages[Len(resp.messages)] IN
         [hist |-> resp.messages, sent |-> h1, raised |-> FALSE,
          text |-> IF last.form \in {"obj", "dict"}
                   THEN last.content ELSE PyStr(resp)]
    ELSE [hist |-> h1, sent |-> h1, raised |-> FALSE, text |-> PyStr(resp)]

\* query, lines 753-772: the history left behind, the messages handed to
\* the runtime, whether the runtime's exception propagated, the text returned
Query(hist, q, resp) ==
    LET h1 == Append(hist, UserEntry(q)) IN
    IF resp.kind = "raise"
    THEN [hist |-> h1, sent |-> h1, raised |-> TRUE, text |-> <<>>]
    ELSE IF resp.kind = "dict"
    THEN LET last == resp.messages[Len(resp.messages)] IN
         [hist |-> resp.messages, sent |-> h1, raised |-> FALSE,
          text |-> IF last.form \in {"obj", "dict"}
                   THEN last.content ELSE PyStr(resp)]
    ELSE [hist |-> h1, sent |-> h1, raised |-> FALSE, text |-> PyStr(resp)]

-----------------------------------------------------------------------------
(* Inputs *)

SeqsUpTo(S, n) == UNION {[1..k -> S] : k \in 0..n}

\* objects of the agent response schema (section 6 of the spec), small
SampleObjects ==
    << JObj([respuesta_texto |-> JStr("s")]),
       JObj([respuesta_texto |-> JStr("s"),
             respuesta_tabla |-> JArr(<<>>)]),
       JObj([respuesta_texto |-> JStr("s"),
             respuesta_tabla |-> JArr(<<JObj([s |-> JStr("s")])>>),
             respuesta_grafica |-> JObj([s |-> JArr(<<JNum(1), JNum(11)>>)])]) >>

KeyOrder == <<"respuesta_texto", "respuesta_tabla", "respuesta_grafica", "s">>

RECURSIVE Digits(_)
Digits(n) == IF n < 10 THEN <<"1">> ELSE Append(Digits(n \div 10), "1")

RECURSIVE Encode(_)
RECURSIVE EncodeItems(_)
RECURSIVE EncodeMembers(_, _)

\* the elements of an array, comma separated
EncodeItems(a) ==
    IF a = <<>> THEN <<>>
    ELSE IF Len(a) = 1 THEN Encode(a[1])
    ELSE Encode(a[1]) \o <<",", " ">> \o EncodeItems(Tail(a))

\* the members of an object whose keys are listed in ks
EncodeMembers(d, ks) ==
    IF ks = <<>> THEN <<>>
    ELSE IF Len(ks) = 1 THEN <<ks[1], ":", " ">> \o Encode(d[ks[1]])
    ELSE <<ks[1], ":", " ">> \o Encode(d[ks[1]]) \o <<",", " ">>
            \o EncodeMembers(d, Tail(ks))

\* the JSON text of a value, as json.dumps writes it
Encode(x) ==
    CASE x.t = "num" -> Digits(x.v)
      [] x.t = "str" -> <<x.v>>
      [] x.t = "arr" -> <<"[">> \o EncodeItems(x.v) \o <<"]">>
      [] x.t = "obj" ->
            LET InDom(k) == k \in DOMAIN x.v IN
            <<"{">> \o EncodeMembers(x.v, SelectSeq(KeyOrder, InDom)) \o <<"}">>
      [] OTHER -> <<>>

SampleTexts == {Encode(SampleObjects[i]) : i \in 1..Len(SampleObjects)}

\* what may precede and follow the core of an agent text
FencePrefixes == {<<Fence>>, <<Fence, "j">>, <<Fence, " ">>, <<Fence, "j", " ">>}
FenceSuffixes == {<<Fence>>, <<" ", Fence>>}
Prefixes == FencePrefixes \cup {<<>>, <<" ">>, <<"j", " ">>}
Suffixes == FenceSuffixes \cup {<<>>, <<" ">>, <<" ", "j">>}

CoreTokens == {"{", "}", "s", ":", "1", "j"}
Cores == SeqsUpTo(CoreTokens, MaxCore) \cup SampleTexts
           \cup {<<"[", "1", "]">>, <<"[", "]">>, <<"{", "s", ":", "1", ",", "}">>}

NormInputs == {p \o c \o q : p \in Prefixes, c \in Cores, q \in Suffixes}

\* texts the agent's final message may carry
AgentTexts ==
    {Encode(SampleObjects[1]),
     <<Fence, "j", " ">> \o Encode(SampleObjects[1]) \o <<" ", Fence>>,
     <<"1">>}

Questions == {<<"j">>, <<"j", " ", "j">>}
NoQuestion == <<>>     \* request.json carries no (or an empty) question

\* a tool message, as the runtime records one between question and answer
ToolEntry == [form |-> "obj", role |-> "tool", content |-> <<"j">>]

NewEntries ==
    {RuntimeEntry("obj", c) : c \in AgentTexts}
      \cup {RuntimeEntry("dict", <<"j", " ", "j">>), RuntimeEntry("bare", <<>>)}

\* what agent.invoke may do with the messages h: raise, return something
\* without a message list, or return h (as given or as message objects)
\* followed by what the run added
RuntimeResponses(h) ==
    {[kind |-> "raise", messages |-> <<>>], [kind |-> "other", messages |-> <<>>]}
      \cup {[kind |-> "dict", messages |-> b \o n] :
               b \in {h, AsObjects(h)},
               n \in {<<e>> : e \in NewEntries}
                        \cup {<<ToolEntry, e>> : e \in NewEntries}}

-----------------------------------------------------------------------------
(* The Record Store: AmadeusFlightAnalytics.__init__ and its preprocessing *)

\* a DataFrame: the set of its columns and its rows; a row is a record of
\* the modelled columns, and the value of a column the frame lacks is unused
Df(cols, rows) == [t |-> "df", cols |-> cols, rows |-> rows]
IsNone(df) == df.t = "none"
HasCol(df, c) == c \in df.cols
NRows(df) == Len(df.rows)

RawSearchCols ==
    {"creation_date", "ond_orig_dep_date", "ond_orig_city_code",
     "ond_orig_ctry_code", "nb_pax_together", "stay_duration"}

RawBookingCols ==
    {"creation_date", "trip_dep_date", "trip_board_ctry_name",
     "trip_board_ctry_code", "trip_board_city_code", "travel_agency_profile",
     "business_leisure", "trip_class", "nb_pax_together", "ond_pax",
     "ond_cab_class", "avg_indicative_price", "online_offline",
     "days_at_destination"}

\* _process_searches, lines 29-39
ProcessSearches(df) ==
    [df EXCEPT !.cols = @ \cup {"search_month", "search_year", "dep_month", "lead_time"}]

\* _process_bookings, lines 41-46
ProcessBookings(df) ==
    [df EXCEPT !.cols = @ \cup {"booking_month", "booking_year"}]

\* the rows a dataset is drawn from
SearchPalette ==
    << [ond_orig_ctry_code |-> "CO", nb_pax_together |-> 1,
        stay_duration |-> -1, lead_time |-> 3],
       [ond_orig_ctry_code |-> "CO", nb_pax_together |-> 4,
        stay_duration |-> 0, lead_time |-> 10],
       [ond_orig_ctry_code |-> "US", nb_pax_together |-> 5,
        stay_duration |-> 3, lead_time |-> 30],
       [ond_orig_ctry_code |-> "MX", nb_pax_together |-> 0,
        stay_duration |-> 8, lead_time |-> -2] >>

BookingPalette ==
    << [trip_board_ctry_code |-> "CO", ond_pax |-> 1, ond_cab_class |-> "Y",
        business_leisure |-> "leisure", nb_pax_together |-> 1,
        avg_indicative_price |-> 100, days_at_destination |-> 0,
        online_offline |-> "online"],
       [trip_board_ctry_code |-> "CO", ond_pax |-> 2, ond_cab_class |-> "C",
        business_leisure |-> "business", nb_pax_together |-> 2,
        avg_indicative_price |-> 500, days_at_destination |-> 3,
        online_offline |-> "offline"],
       [trip_board_ctry_code |-> "US", ond_pax |-> 1, ond_cab_class |-> "F",
        business_leisure |-> "leisure", nb_pax_together |-> 3,
        avg_indicative_price |-> 0, days_at_destination |-> 5,
        online_offline |-> "online"],
       [trip_board_ctry_code |-> "MX", ond_pax |-> 2, ond_cab_class |-> "Z",
        business_leisure |-> "business", nb_pax_together |-> 4,
        avg_indicative_price |-> -50, days_at_destination |-> 2,
        online_offline |-> "offline"] >>

\* the row selections of at most MaxRows rows, in palette order (no modelled
\* aggregate depends on the order of the rows)
Selections(palette) ==
    {x \in SeqsUpTo(1..Len(palette), MaxRows) :
        \A i \in 1..(Len(x) - 1) : x[i] <= x[i + 1]}

RowsOf(palette, x) == [i \in 1..Len(x) |-> palette[x[i]]]

SearchColSets ==
    {RawSearchCols, RawSearchCols \ {"nb_pax_together"},
     RawSearchCols \ {"nb_pax_together", "ond_orig_ctry_code"}}
BookingColSets == {RawBookingCols, RawBookingCols \ {"ond_pax"}}

LoadedSearches ==
    {ProcessSearches(Df(c, RowsOf(SearchPalette, x))) :
        c \in SearchColSets, x \in Selections(SearchPalette)}

LoadedBookings ==
    {ProcessBookings(Df(c, RowsOf(BookingPalette, x))) :
        c \in BookingColSets, x \in Selections(BookingPalette)}

-----------------------------------------------------------------------------
(* pandas and Python arithmetic *)

RECURSIVE SumSeq(_)
SumSeq(a) ==
    IF a = <<>> THEN 0
    ELSE IF Len(a) = 1 THEN a[1]
    ELSE LET h == Len(a) \div 2
         IN  SumSeq(SubSeq(a, 1, h)) + SumSeq(SubSeq(a, h + 1, Len(a)))

\* df[c].sum()
ColSum(df, c) == SumSeq([i \in 1..NRows(df) |-> df.rows[i][c]])

\* the values of column c
ColValues(df, c) == {df.rows[i][c] : i \in 1..NRows(df)}

\* (df[c] == v).sum()
CountEq(df, c, v) == Cardinality({i \in 1..NRows(df) : df.rows[i][c] = v})

\* df[c].value_counts().to_dict()
ValueCounts(df, c) == [v \in ColValues(df, c) |-> CountEq(df, c, v)]

\* df.groupby(k)[c].sum()
GroupSum(df, k, c) ==
    [v \in ColValues(df, k) |->
        SumSeq([i \in 1..NRows(df) |->
                  IF df.rows[i][k] = v THEN df.rows[i][c] ELSE 0])]

\* series.get(key, 0)
GetOr0(series, key) == IF key \in DOMAIN series THEN series[key] ELSE 0

\* a float, kept exact as the fraction num/den; den = 0 is NaN
Ratio(n, d) == [num |-> n, den |-> d]
IsNaN(x) == x.den = 0
\* x < c for an integer c; False when x is NaN
Below(x, c) == x.den > 0 /\ x.num < c * x.den
\* x > c for an integer c; False when x is NaN
Above(x, c) == x.den > 0 /\ x.num > c * x.den

Pow10(p) == IF p = 0 THEN 1 ELSE IF p = 1 THEN 10 ELSE 100

\* f"{x:.<p>f}%" for x >= 0: the digits before and after the point, rounded
\* half to even on the exact value; "nan%" when x is NaN
FormatPct(x, p) ==
    IF IsNaN(x) THEN [nan |-> TRUE, int |-> 0, frac |-> 0, places |-> p]
    ELSE LET n == x.num * Pow10(p)
             q == n \div x.den
             r == n % x.den
             up == 2 * r > x.den \/ (2 * r = x.den /\ q % 2 = 1)
             m == IF up THEN q + 1 ELSE q
         IN  [nan |-> FALSE, int |-> m \div Pow10(p), frac |-> m % Pow10(p),
              places |-> p]

\* int(x) for a float x that is n/d: truncation towards zero
TruncDiv(n, d) == IF n >= 0 THEN n \div d ELSE -((-n) \div d)

Unavailable(op, msg) == [op |-> op, kind |-> "unavailable", text |-> msg]
Raises(op, err) == [op |-> op, kind |-> "raise", error |-> err]
NoReport == [op |-> "none", kind |-> "none"]

-----------------------------------------------------------------------------
(* The Analytics Engine: the six report operations *)

\* series.nlargest(n).index / value_counts().head(n): the n keys of largest
\* value, all of them when there are at most n
TopN(series, n) ==
    IF Cardinality(DOMAIN series) <= n THEN DOMAIN series
    ELSE CHOOSE S \in SUBSET (DOMAIN series) :
            /\ Cardinality(S) = n
            /\ \A x \in S, y \in (DOMAIN series) \ S : series[x] >= series[y]

\* analisis_demografico_origen, lines 48-110 (the country name column is
\* read from the country code of the row: one name per code)
analisis_demografico_origen(b) ==
    IF IsNone(b)
    THEN Unavailable("demografico", "No hay datos de bookings disponibles")
    ELSE IF ~({"trip_board_ctry_name", "trip_board_city_code",
               "trip_board_ctry_code"} \subseteq b.cols)
    THEN Raises("demografico", "KeyError")
    ELSE IF HasCol(b, "travel_agency_profile") /\ NRows(b) = 0
    THEN Raises("demografico", "ValueError")    \* idxmax of an empty series
    ELSE LET paises == ValueCounts(b, "trip_board_ctry_code")
             bl == IF HasCol(b, "business_leisure")
                   THEN ValueCounts(b, "business_leisure") ELSE <<>>
         IN  [op |-> "demografico", kind |-> "report",
              top_10_paises |-> [c \in TopN(paises, 10) |-> paises[c]],
              total_paises_unicos |-> Cardinality(DOMAIN paises),
              distribucion |-> bl,
              porcentajes |->
                  [k \in DOMAIN bl |-> FormatPct(Ratio(100 * bl[k], NRows(b)), 1)],
              tamano_grupo |->
                  IF HasCol(b, "nb_pax_together")
                  THEN <<[promedio_pasajeros |->
                              Ratio(ColSum(b, "nb_pax_together"), NRows(b)),
                          viajeros_solos |-> CountEq(b, "nb_pax_together", 1),
                          grupos_2_personas |-> CountEq(b, "nb_pax_together", 2),
                          grupos_3plus |->
                              Cardinality({i \in 1..NRows(b) :
                                  b.rows[i].nb_pax_together >= 3})]>>
                  ELSE <<>>,
              total_reservas |-> NRows(b),
              total_pasajeros |->
                  IF HasCol(b, "ond_pax") THEN ColSum(b, "ond_pax") ELSE 0]

\* analisis_temporal_demanda, lines 162-164: the bookings frame it leaves
BookingsAfterTemporal(b) ==
    IF IsNone(b) THEN b ELSE [b EXCEPT !.cols = @ \cup {"booking_lead_time"}]

\* the values of column c, in row order
Column(df, c) == [i \in 1..NRows(df) |-> df.rows[i][c]]

NonNegative(x) == x >= 0
Positive(x) == x > 0

\* Series.mean(): NaN over no value
Mean(a) == Ratio(SumSeq(a), Len(a))

\* (series <= hi).sum() and ((series > lo) & (series <= hi)).sum()
CountUpTo(a, hi) == Cardinality({i \in 1..Len(a) : a[i] <= hi})
CountOver(a, lo) == Cardinality({i \in 1..Len(a) : a[i] > lo})
CountBetween(a, lo, hi) == Cardinality({i \in 1..Len(a) : a[i] > lo /\ a[i] <= hi})

\* analisis_temporal_demanda, lines 112-179 (month frequencies and medians
\* apart: of those, which halves are reported)
analisis_temporal_demanda(s, b) ==
    [op |-> "temporal", kind |-> "report",
     estacionalidad_busquedas |-> ~IsNone(s),
     lead_time_busquedas |->
         IF ~IsNone(s) /\ HasCol(s, "lead_time")
         THEN LET lead == Column(s, "lead_time") IN
              <<[promedio_dias |-> Mean(lead),
                 anticipacion_corta_0_7dias |-> CountUpTo(lead, 7),
                 anticipacion_media_8_30dias |-> CountBetween(lead, 7, 30),
                 anticipacion_larga_30plus |-> CountOver(lead, 30)]>>
         ELSE <<>>,
     duracion_estancia_busquedas |->
         IF ~IsNone(s) /\ HasCol(s, "stay_duration")
         THEN LET stays == SelectSeq(Column(s, "stay_duration"), NonNegative) IN
              <<[promedio_noches |->
                     IF Len(stays) > 0 THEN Mean(stays) ELSE Ratio(0, 1),
                 estancias_cortas_1_3noches |-> CountUpTo(stays, 3),
                 estancias_medias_4_7noches |-> CountBetween(stays, 3, 7),
                 estancias_largas_7plus |-> CountOver(stays, 7)]>>
         ELSE <<>>,
     estacionalidad_reservas |-> ~IsNone(b),
     lead_time_reservas |-> ~IsNone(b),
     duracion_estancia_reservas |->
         IF ~IsNone(b) /\ HasCol(b, "days_at_destination")
         THEN LET stays_book ==
                      SelectSeq(Column(b, "days_at_destination"), Positive) IN
              <<[promedio_noches |->
                     IF Len(stays_book) > 0 THEN Mean(stays_book) ELSE Ratio(0, 1)]>>
         ELSE <<>>]

\* cabin_names.get(k, k), line 231
CabinName(k) ==
    CASE k = "Y" -> "Economy"
      [] k = "W" -> "Premium Economy"
      [] k = "C" -> "Business"
      [] k = "F" -> "First"
      [] OTHER -> k

PremiumCountBusinessOnly(dist) == GetOr0(dist, "C")

\* cabin_dist.get('C', 0) + cabin_dist.get('F', 0), line 235
PremiumCount(dist) == GetOr0(dist, "C") + GetOr0(dist, "F")

\* the k-th smallest value of a non-empty series
KthSmallest(a, k) ==
    CHOOSE v \in {a[i] : i \in 1..Len(a)} :
        /\ Cardinality({i \in 1..Len(a) : a[i] < v}) < k
        /\ k <= Cardinality({i \in 1..Len(a) : a[i] <= v})

\* Series.median(): NaN over no value
Median(a) ==
    IF Len(a) = 0 THEN Ratio(0, 0)
    ELSE IF Len(a) % 2 = 1 THEN Ratio(KthSmallest(a, (Len(a) + 1) \div 2), 1)
    ELSE Ratio(KthSmallest(a, Len(a) \div 2)
                 + KthSmallest(a, Len(a) \div 2 + 1), 2)

\* Series.min() and Series.max(): NaN over no value
Min(a) == IF Len(a) = 0 THEN Ratio(0, 0) ELSE Ratio(KthSmallest(a, 1), 1)
Max(a) == IF Len(a) = 0 THEN Ratio(0, 0) ELSE Ratio(KthSmallest(a, Len(a)), 1)

AllPrices(b) == Column(b, "avg_indicative_price")

\* line 195: the prices above zero
ValidPrices(b) == SelectSeq(Column(b, "avg_indicative_price"), Positive)

\* line 209
TotalRevenue(b) ==
    IF HasCol(b, "ond_pax")
    THEN SumSeq([i \in 1..NRows(b) |->
                   b.rows[i].avg_indicative_price * b.rows[i].ond_pax])
    ELSE SumSeq(ValidPrices(b))

\* analisis_economico_precios, lines 181-245 (standard deviation, quartiles
\* and the mean price per cabin apart)
analisis_economico_precios(b) ==
    IF IsNone(b)
    THEN Unavailable("economico", "No hay datos de bookings disponibles")
    ELSE [op |-> "economico", kind |-> "report",
          estructura_precios |->
              IF HasCol(b, "avg_indicative_price")
              THEN LET prices == ValidPrices(b) IN
                   <<[precio_promedio_usd |-> Mean(prices),
                      precio_mediana_usd |-> Median(prices),
                      precio_min_usd |-> Min(prices),
                      precio_max_usd |-> Max(prices)]>>
              ELSE <<>>,
          revenue |->
              IF HasCol(b, "avg_indicative_price")
              THEN <<[revenue_total_usd |-> TotalRevenue(b),
                      revenue_promedio_por_reserva |->
                          Ratio(TotalRevenue(b), NRows(b))]>>
              ELSE <<>>,
          top_paises_revenue |->
              IF HasCol(b, "avg_indicative_price") /\ HasCol(b, "trip_board_ctry_name")
              THEN LET rev == GroupSum(b, "trip_board_ctry_code", "avg_indicative_price")
                       n == ValueCounts(b, "trip_board_ctry_code")
                   IN  [c \in TopN(rev, 5) |->
                          [revenue_total |-> rev[c],
                           precio_promedio |-> Ratio(rev[c], n[c])]]
              ELSE <<>>,
          preferencias_cabina |->
              IF HasCol(b, "ond_cab_class")
              THEN LET dist == ValueCounts(b, "ond_cab_class") IN
                   <<[distribucion |->
                         [l \in {CabinName(k) : k \in DOMAIN dist} |->
                             dist[CHOOSE k \in DOMAIN dist : CabinName(k) = l]],
                      porcentaje_premium |->
                         FormatPct(Ratio(100 * PremiumCount(dist), NRows(b)), 1)]>>
              ELSE <<>>]

\* line 260
TotalSearches(s) ==
    IF HasCol(s, "nb_pax_together") THEN ColSum(s, "nb_pax_together") ELSE NRows(s)

TotalBookingsByRows(b) == NRows(b)

\* lines 261-262
TotalBookings(b) == IF HasCol(b, "ond_pax") THEN ColSum(b, "ond_pax") ELSE NRows(b)

ConversionRateUnguarded(booked, searched) == Ratio(100 * booked, searched)

\* lines 264, 284, 380 and 470: booked / searched * 100 if searched > 0 else 0
ConversionRate(booked, searched) ==
    IF searched > 0 THEN Ratio(100 * booked, searched) ELSE Ratio(0, 1)

OportunidadesElif(rate) ==
    IF Below(rate, 30) THEN <<"Conversion general baja">>
    ELSE IF Below(rate, 50) THEN <<"Gap de conversion significativo">>
    ELSE <<>>

\* lines 292-305: the "tipo" of each opportunity appended, in order
Oportunidades(rate) ==
    (IF Below(rate, 30) THEN <<"Conversion general baja">> ELSE <<>>)
      \o (IF Below(rate, 50) THEN <<"Gap de conversion significativo">> ELSE <<>>)

\* analisis_conversion_funnel, lines 247-307
analisis_conversion_funnel(s, b) ==
    IF IsNone(s) \/ IsNone(b)
    THEN Unavailable("funnel",
            "Se requieren ambos datasets (searches y bookings) para analisis de conversion")
    ELSE LET total_searches == TotalSearches(s)
             total_bookings == TotalBookings(b)
             conversion_rate == ConversionRate(total_bookings, total_searches)
             por_origen == HasCol(s, "ond_orig_ctry_code")
                             /\ HasCol(b, "trip_board_ctry_code")
         IN  IF por_origen /\ ~(HasCol(s, "nb_pax_together") /\ HasCol(b, "ond_pax"))
             THEN Raises("funnel", "KeyError")       \* lines 275-277
             ELSE [op |-> "funnel", kind |-> "report",
                   total_pasajeros_buscados |-> total_searches,
                   total_pasajeros_reservados |-> total_bookings,
                   conversion_rate |-> conversion_rate,
                   tasa_conversion |-> FormatPct(conversion_rate, 2),
                   busquedas_sin_convertir |-> total_searches - total_bookings,
                   analisis_por_origen |->
                       IF por_origen
                       THEN LET search_by_country ==
                                    GroupSum(s, "ond_orig_ctry_code", "nb_pax_together")
                                booking_by_country ==
                                    GroupSum(b, "trip_board_ctry_code", "ond_pax")
                            IN  [country \in TopN(search_by_country, 5) |->
                                   LET searches == search_by_country[country]
                                       bookings == GetOr0(booking_by_country, country)
                                       conv == ConversionRate(bookings, searches)
                                   IN  [busquedas |-> searches,
                                        reservas |-> bookings,
                                        conv |-> conv,
                                        conversion |-> FormatPct(conv, 2)]]
                       ELSE <<>>,
                   oportunidades |-> Oportunidades(conversion_rate)]

GapUsuariosClamped(total_searches, total_bookings) ==
    IF 3 * total_searches > 10 * total_bookings
    THEN TruncDiv(3 * total_searches - 10 * total_bookings, 10) ELSE 0

\* line 381: int(total_searches * 0.3 - total_bookings)
GapUsuarios(total_searches, total_bookings) ==
    TruncDiv(3 * total_searches - 10 * total_bookings, 10)

\* recomendar_publico_objetivo, lines 309-390 (price insights apart)
recomendar_publico_objetivo(s, b) ==
    IF IsNone(b)
    THEN Unavailable("recomendar", "No hay datos de bookings disponibles")
    ELSE LET paises == IF HasCol(b, "trip_board_ctry_name")
                       THEN ValueCounts(b, "trip_board_ctry_code") ELSE <<>>
             bl == IF HasCol(b, "business_leisure")
                   THEN ValueCounts(b, "business_leisure") ELSE <<>>
             grupos == Cardinality({i \in 1..NRows(b) :
                                      b.rows[i].nb_pax_together >= 3})
             Segmento(tipo, nombre, count) ==
                 [tipo |-> tipo, nombre |-> nombre, volumen |-> count,
                  penetracion |-> FormatPct(Ratio(100 * count, NRows(b)), 1)]
             conv_rate == IF IsNone(s) THEN Ratio(0, 1)
                          ELSE ConversionRate(NRows(b), NRows(s))
         IN  [op |-> "recomendar", kind |-> "report",
              segmentos_prioritarios |->
                  {Segmento("pais", c, paises[c]) : c \in TopN(paises, 3)}
                    \cup {Segmento("business_leisure", k, bl[k]) :
                             k \in {x \in DOMAIN bl : 100 * bl[x] > 20 * NRows(b)}}
                    \cup IF HasCol(b, "nb_pax_together") /\ 100 * grupos > 20 * NRows(b)
                         THEN {Segmento("grupos", "3+", grupos)} ELSE {},
              quick_wins |->
                  IF ~IsNone(s) /\ Below(conv_rate, 40)
                  THEN <<[gap_usuarios |-> GapUsuarios(NRows(s), NRows(b))]>>
                  ELSE <<>>]

\* lines 422-423: the share of bookings tagged online, in percent (NaN over
\* no booking)
OnlinePct(b) ==
    Ratio(100 * Cardinality({i \in 1..NRows(b) : b.rows[i].online_offline = "online"}),
          NRows(b))

\* lines 426-430 and 434-436: the channels of either list, in order
CanalesDigitales ==
    <<"Google Ads Search", "Meta Ads (Facebook/Instagram)", "YouTube Ads",
      "TikTok", "Email Marketing">>
CanalesConAgencias == <<"Agencias de viaje", "Google Ads", "Ferias de turismo">>

CanalesRecomendadosFrom60(b) ==
    IF ~HasCol(b, "online_offline") THEN <<>>
    ELSE IF ~Below(OnlinePct(b), 60) THEN CanalesDigitales
    ELSE CanalesConAgencias

\* lines 420-437: canales_recomendados
CanalesRecomendados(b) ==
    IF ~HasCol(b, "online_offline") THEN <<>>
    ELSE IF Above(OnlinePct(b), 60) THEN CanalesDigitales
    ELSE CanalesConAgencias

\* line 491: int(avg_lead) + 14, the days before high season at which the
\* campaigns start (int() drops the fraction)
InicioCampanas(avg_lead) == TruncDiv(avg_lead.num, avg_lead.den) + 14

\* estrategia_campanas_turismo, lines 392-520 (month names apart)
estrategia_campanas_turismo(s, b) ==
    IF IsNone(b)
    THEN Raises("estrategia", "AttributeError")     \* line 440: None.columns
    ELSE IF ~IsNone(s) /\ HasCol(s, "lead_time") /\ NRows(s) = 0
    THEN Raises("estrategia", "ValueError")         \* line 489: int(NaN)
    ELSE LET both == ~IsNone(s)
             bl == IF HasCol(b, "business_leisure")
                   THEN ValueCounts(b, "business_leisure") ELSE <<>>
             conv_rate == IF both THEN ConversionRate(NRows(b), NRows(s))
                          ELSE Ratio(0, 1)
         IN  [op |-> "estrategia", kind |-> "report",
              timing_optimo |-> both,
              canales_recomendados |-> CanalesRecomendados(b),
              mensajes_por_segmento |->
                  (IF "business" \in DOMAIN bl /\ 10 * bl["business"] > 3 * NRows(b)
                   THEN {"Business"} ELSE {})
                    \cup (IF "leisure" \in DOMAIN bl /\ 2 * bl["leisure"] > NRows(b)
                          THEN {"Leisure"} ELSE {}),
              tacticas_especificas |->
                  (IF both /\ Below(conv_rate, 35)
                   THEN <<"Campana de retargeting agresiva">> ELSE <<>>)
                    \o (IF both /\ HasCol(s, "lead_time")
                        THEN <<"Calendario de campanas basado en anticipacion">>
                        ELSE <<>>),
              inicio_campanas |->
                  IF both /\ HasCol(s, "lead_time")
                  THEN <<InicioCampanas(Mean(Column(s, "lead_time")))>>
                  ELSE <<>>,
              kpi_conversion |->
                  IF both THEN <<FormatPct(conv_rate, 1)>> ELSE <<>>]

-----------------------------------------------------------------------------
(* The service: server.py *)

ErrorBody(msg) == JObj([error |-> JStr(msg)])
NoHttp == [status |-> 0, body |-> PyNone]
NoResponse == [kind |-> "none", messages |-> <<>>]
NoRet == [hist |-> <<>>, sent |-> <<>>, raised |-> FALSE, text |-> <<>>]

InitEngineIdle ==
    /\ searches_df = PyNone
    /\ bookings_df = PyNone
    /\ report = NoReport

InitAgentIdle ==
    /\ chat_history = <<>>
    /\ sent = <<>>
    /\ runtime_response = NoResponse
    /\ ret = NoRet
    /\ question = NoQuestion
    /\ http = NoHttp
    /\ last_call = "none"
    /\ prev_call = "none"

InitNormIdle ==
    /\ response_str = <<>>
    /\ response_data = PyNone
    /\ norm_stage = "none"

\* the requests served at once (Flask serves each request on its own thread)
Callers == {1, 2}

NoCall ==
    [op |-> "none", pc |-> "done", snapshot |-> <<>>, returned |-> NoResponse,
     overlapped |-> FALSE]

InitConcIdle ==
    /\ calls = [c \in Callers |-> NoCall]
    /\ observed = {}

\* init_agent, lines 30-70: the agent is built, or the API key is missing
Init ==
    /\ agent_ready \in BOOLEAN
    /\ InitAgentIdle
    /\ InitConcIdle
    /\ InitNormIdle
    /\ InitEngineIdle

Served(call) ==
    /\ last_call' = call
    /\ prev_call' = last_call

\* reset_agent_memory, lines 75-76
ResetNoAgent ==
    /\ ~agent_ready
    /\ http' = [status |-> 500, body |-> ErrorBody("no agent")]
    /\ Served("reset")
    /\ UNCHANGED <<agent_ready, chat_history, sent, runtime_response, ret, question>>
    /\ UNCHANGED norm_vars
    /\ UNCHANGED engine_vars
    /\ UNCHANGED conc_vars

\* reset_agent_memory, lines 78-81
ResetAgent ==
    /\ agent_ready
    /\ chat_history' = ResetMemory(chat_history)
    /\ http' = [status |-> 200, body |-> JObj([message |-> JStr("reset")])]
    /\ Served("reset")
    /\ UNCHANGED <<agent_ready, sent, runtime_response, ret, question>>
    /\ UNCHANGED norm_vars
    /\ UNCHANGED engine_vars
    /\ UNCHANGED conc_vars

\* query_agent, lines 88-89
QueryNoAgent(q) ==
    /\ ~agent_ready
    /\ question' = q
    /\ http' = [status |-> 500, body |-> ErrorBody("no agent")]
    /\ Served("query")
    /\ UNCHANGED <<agent_ready, chat_history, sent, runtime_response, ret>>
    /\ UNCHANGED norm_vars
    /\ UNCHANGED engine_vars
    /\ UNCHANGED conc_vars

\* query_agent, lines 91-95
QueryNoQuestion ==
    /\ agent_ready
    /\ question' = NoQuestion
    /\ http' = [status |-> 400, body |-> ErrorBody("no question")]
    /\ Served("query")
    /\ UNCHANGED <<agent_ready, chat_history, sent, runtime_response, ret>>
    /\ UNCHANGED norm_vars
    /\ UNCHANGED engine_vars
    /\ UNCHANGED conc_vars

\* an exception that leaves the handler: the framework's own error page
Unhandled(err) == [t |-> "unhandled", v |-> err]

\* query_agent, lines 91-92, on a JSON body that is no object (null, a list,
\* a string, a number): data.get raises AttributeError before the try block
QueryBadBody ==
    /\ agent_ready
    /\ question' = NoQuestion
    /\ http' = [status |-> 500, body |-> Unhandled("AttributeError")]
    /\ Served("query")
    /\ UNCHANGED <<agent_ready, chat_history, sent, runtime_response, ret>>
    /\ UNCHANGED norm_vars
    /\ UNCHANGED engine_vars
    /\ UNCHANGED conc_vars

\* query_agent, lines 97-148, the agent's query included
QueryAgent(q, resp) ==
    /\ agent_ready
    /\ Len(chat_history) + 1 <= MaxHist
    /\ Len(resp.messages) <= MaxHist
    /\ LET r == Query(chat_history, q, resp)
           n == Normalize(r.text)
       IN  /\ question' = q
           /\ chat_history' = r.hist
           /\ sent' = r.sent
           /\ runtime_response' = resp
           /\ ret' = r
           /\ IF r.raised
              THEN /\ http' = [status |-> 500, body |-> ErrorBody("exception")]
                   /\ UNCHANGED norm_vars
              ELSE /\ response_str' = r.text
                   /\ response_data' = n.data
                   /\ norm_stage' = n.stage
                   /\ http' = [status |-> 200, body |-> n.data]
    /\ Served("query")
    /\ UNCHANGED agent_ready
    /\ UNCHANGED engine_vars
    /\ UNCHANGED conc_vars

Next ==
    \/ ResetNoAgent
    \/ ResetAgent
    \/ \E q \in Questions \cup {NoQuestion} : QueryNoAgent(q)
    \/ QueryNoQuestion
    \/ QueryBadBody
    \/ \E q \in Questions :
         \E resp \in RuntimeResponses(Append(chat_history, UserEntry(q))) :
            QueryAgent(q, resp)

Spec == Init /\ [][Next]_vars

-----------------------------------------------------------------------------
(* Two requests served at once on the one shared agent: query and           *)
(* reset_memory step by step                                                *)

QuestionOf(c) == IF c = 1 THEN <<"j">> ELSE <<"j", " ", "j">>

\* the runtime raises, or returns the messages it was given and its answer
ConcResponses(h) ==
    {r \in RuntimeResponses(h) :
        \/ r.kind = "raise"
        \/ r.messages = Append(h, RuntimeEntry("obj", <<"1">>))}

AskAssignMerging(hist, snapshot, resp) ==
    IF hist = snapshot THEN resp.messages ELSE hist

\* query, lines 764-765: the history after the runtime returned
AskAssign(hist, snapshot, resp) == resp.messages

InFlight(call) == call.op = "ask" /\ call.pc \in {"appended", "invoked"}
AllDone(cs) == \A c \in Callers : cs[c].pc = "done"
Holds(h, q) == \E i \in 1..Len(h) : h[i].role = "user" /\ h[i].content = q

\* what the observer notes once the requests served together are all done:
\* two asks of which one question is in the history no more; a reset that
\* ran while an ask was in flight and a history that is not empty
Observation(cs, h) ==
    IF ~AllDone(cs) THEN {}
    ELSE (IF /\ \A c \in Callers : cs[c].op = "ask"
             /\ \E c \in Callers : ~Holds(h, QuestionOf(c))
          THEN {"lost_update"} ELSE {})
           \cup (IF /\ \E c \in Callers : cs[c].op = "reset" /\ cs[c].overlapped
                    /\ h # <<>>
                 THEN {"reset_overwritten"} ELSE {})

InitConc ==
    /\ agent_ready = TRUE
    /\ InitAgentIdle
    /\ InitNormIdle
    /\ InitEngineIdle
    /\ InitConcIdle

ConcFrame ==
    /\ UNCHANGED <<agent_ready, sent, runtime_response, ret, question, http,
                   last_call, prev_call>>
    /\ UNCHANGED norm_vars
    /\ UNCHANGED engine_vars

\* two requests arrive together: each a query or a reset (histories are kept
\* within MaxHist entries before the two are served)
Arrive(ops) ==
    /\ AllDone(calls)
    /\ Len(chat_history) + Cardinality(Callers) <= MaxHist
    /\ calls' = [c \in Callers |-> [NoCall EXCEPT !.op = ops[c], !.pc = "start"]]
    /\ UNCHANGED <<chat_history, observed>>
    /\ ConcFrame

\* query, line 756
AskAppend(c) ==
    /\ calls[c].op = "ask" /\ calls[c].pc = "start"
    /\ chat_history' = Append(chat_history, UserEntry(QuestionOf(c)))
    /\ calls' = [calls EXCEPT ![c].pc = "appended"]
    /\ UNCHANGED observed
    /\ ConcFrame

\* query, lines 759-761: the runtime takes the messages it is handed
AskInvoke(c) ==
    /\ calls[c].op = "ask" /\ calls[c].pc = "appended"
    /\ calls' = [calls EXCEPT ![c].pc = "invoked", ![c].snapshot = chat_history]
    /\ UNCHANGED <<chat_history, observed>>
    /\ ConcFrame

\* query, lines 759-772: the runtime raises or returns, and the history is
\* replaced
AskReturn(c, resp) ==
    /\ calls[c].op = "ask" /\ calls[c].pc = "invoked"
    /\ chat_history' = IF resp.kind = "dict"
                       THEN AskAssign(chat_history, calls[c].snapshot, resp)
                       ELSE chat_history
    /\ calls' = [calls EXCEPT ![c].pc = "done", ![c].returned = resp]
    /\ observed' = observed \cup Observation(calls', chat_history')
    /\ ConcFrame

\* reset_memory, lines 748-751
ResetDuring(c) ==
    /\ calls[c].op = "reset" /\ calls[c].pc = "start"
    /\ chat_history' = ResetMemory(chat_history)
    /\ calls' = [calls EXCEPT ![c].pc = "done",
                              ![c].overlapped = \E d \in Callers : InFlight(calls[d])]
    /\ observed' = observed \cup Observation(calls', chat_history')
    /\ ConcFrame

NextConc ==
    \/ \E ops \in [Callers -> {"ask", "reset"}] : Arrive(ops)
    \/ \E c \in Callers : AskAppend(c)
    \/ \E c \in Callers : AskInvoke(c)
    \/ \E c \in Callers : \E resp \in ConcResponses(calls[c].snapshot) : AskReturn(c, resp)
    \/ \E c \in Callers : ResetDuring(c)

SpecConc == InitConc /\ [][NextConc]_vars

-----------------------------------------------------------------------------
(* The normaliser alone, over every input text *)

InitNorm ==
    /\ agent_ready = TRUE
    /\ InitAgentIdle
    /\ InitConcIdle
    /\ InitEngineIdle
    /\ response_str \in NormInputs
    /\ response_data = PyNone
    /\ norm_stage = "none"

\* query_agent, lines 114-144, applied to response_str
NormalizeStep ==
    /\ norm_stage = "none"
    /\ response_data' = Normalize(response_str).data
    /\ norm_stage' = Normalize(response_str).stage
    /\ UNCHANGED response_str
    /\ UNCHANGED agent_vars
    /\ UNCHANGED engine_vars
    /\ UNCHANGED conc_vars

NextNorm == NormalizeStep

SpecNorm == InitNorm /\ [][NextNorm]_vars

-----------------------------------------------------------------------------
(* The Analytics Engine alone, over every pair of loaded datasets *)

InitEngine ==
    /\ agent_ready = TRUE
    /\ InitAgentIdle
    /\ InitConcIdle
    /\ InitNormIdle
    /\ searches_df \in {PyNone} \cup LoadedSearches
    /\ bookings_df \in {PyNone} \cup LoadedBookings
    /\ report = NoReport

Reported(r) ==
    /\ report' = r
    /\ UNCHANGED searches_df
    /\ UNCHANGED agent_vars
    /\ UNCHANGED norm_vars
    /\ UNCHANGED conc_vars

Demografico ==
    /\ Reported(analisis_demografico_origen(bookings_df))
    /\ UNCHANGED bookings_df

Temporal ==
    /\ Reported(analisis_temporal_demanda(searches_df, bookings_df))
    /\ bookings_df' = BookingsAfterTemporal(bookings_df)

Economico ==
    /\ Reported(analisis_economico_precios(bookings_df))
    /\ UNCHANGED bookings_df

Funnel ==
    /\ Reported(analisis_conversion_funnel(searches_df, bookings_df))
    /\ UNCHANGED bookings_df

Recomendar ==
    /\ Reported(recomendar_publico_objetivo(searches_df, bookings_df))
    /\ UNCHANGED bookings_df

Estrategia ==
    /\ Reported(estrategia_campanas_turismo(searches_df, bookings_df))
    /\ UNCHANGED bookings_df

NextEngine ==
    \/ Demografico
    \/ Temporal
    \/ Economico
    \/ Funnel
    \/ Recomendar
    \/ Estrategia

SpecEngine == InitEngine /\ [][NextEngine]_vars

-----------------------------------------------------------------------------
(* The Analytics Engine over the datasets of the documented scenarios *)

\* a frame of n equal rows
Repeat(row, n) == [i \in 1..n |-> row]

SearchRow(pax, stay, lead) ==
    [ond_orig_ctry_code |-> "CO", nb_pax_together |-> pax,
     stay_duration |-> stay, lead_time |-> lead]

BookingRow(pax, cabin, price) ==
    [trip_board_ctry_code |-> "CO", ond_pax |-> pax, ond_cab_class |-> cabin,
     business_leisure |-> "leisure", nb_pax_together |-> 1,
     avg_indicative_price |-> price, days_at_destination |-> 2,
     online_offline |-> "online"]

OfflineRow == [BookingRow(1, "Y", 200) EXCEPT !.online_offline = "offline"]

\* searches of 100 passengers in all (as 100, 10 and 4 records), and
\* searches with one stay of each length around the bucket limits
ScenarioSearchRows ==
    { Repeat(SearchRow(1, 2, 10), 100),
      Repeat(SearchRow(10, -1, 10), 10),
      Repeat(SearchRow(25, 5, 10), 4),
      << SearchRow(1, -1, 1), SearchRow(1, 0, 2), SearchRow(1, 1, 3),
         SearchRow(1, 3, 4), SearchRow(1, 4, 5), SearchRow(1, 7, 6),
         SearchRow(1, 8, 9) >> }

\* bookings of 25 passengers in all (as 25 records and as 1), cabins
\* {Y: 700, C: 300}, prices [100 x 5, 500 x 5] with one passenger each, one
\* record of each cabin code and two of an unknown one (one of them without
\* a price), 35 records (35% of 100 search records), three records tagged
\* online with two tagged offline (an online share of exactly 60%), two
\* online with one offline, and no record at all
ScenarioBookingRows ==
    { Repeat(BookingRow(1, "Y", 200), 3) \o Repeat(OfflineRow, 2),
      Repeat(BookingRow(1, "Y", 200), 2) \o Repeat(OfflineRow, 1) } \cup
    { Repeat(BookingRow(1, "Y", 200), 25),
      Repeat(BookingRow(1, "Y", 200), 35),
      << BookingRow(25, "W", 200) >>,
      Repeat(BookingRow(1, "Y", 200), 700) \o Repeat(BookingRow(1, "C", 900), 300),
      Repeat(BookingRow(1, "Y", 100), 5) \o Repeat(BookingRow(1, "Y", 500), 5),
      << BookingRow(1, "Y", 200), BookingRow(1, "W", 300), BookingRow(1, "C", 900),
         BookingRow(1, "F", 1500), BookingRow(1, "Z", 0), BookingRow(1, "Z", 200) >>,
      << >> }

ScenarioSearches == {ProcessSearches(Df(RawSearchCols, r)) : r \in ScenarioSearchRows}
\* every frame with all the columns, and one without the online/offline tag
ScenarioBookings ==
    {ProcessBookings(Df(RawBookingCols, r)) : r \in ScenarioBookingRows}
      \cup {ProcessBookings(Df(RawBookingCols \ {"online_offline"},
                               Repeat(BookingRow(1, "Y", 200), 3)))}

InitScenario ==
    /\ agent_ready = TRUE
    /\ InitAgentIdle
    /\ InitConcIdle
    /\ InitNormIdle
    /\ searches_df \in {PyNone} \cup ScenarioSearches
    /\ bookings_df \in {PyNone} \cup ScenarioBookings
    /\ report = NoReport

SpecScenario == InitScenario /\ [][NextEngine]_vars

-----------------------------------------------------------------------------
(* Claims about the Response Normalizer, checked under SpecNorm *)

Normalized == norm_stage # "none"

\* C3 (as claimed): whatever text the agent returns, the normaliser's result
\* is a key-value object, never a bare non-object value.
C3_AlwaysObject == Normalized => response_data.t = "obj"

\* C4: a well-formed schema object text normalises to the object it encodes,
\* and the same text between code-fence markers normalises to exactly what
\* the text without them normalises to.
C4_RoundTrip ==
    Normalized =>
        \A i \in 1..Len(SampleObjects) :
            LET T == Encode(SampleObjects[i]) IN
            /\ response_str = T => response_data = SampleObjects[i]
            /\ \A p \in FencePrefixes, q \in FenceSuffixes :
                  response_str = p \o T \o q
                    => response_data = Normalize(T).data

C4_Witness ==
    /\ response_str = <<Fence, "j", " ">> \o Encode(SampleObjects[3]) \o <<" ", Fence>>
    /\ norm_stage = "a"
    /\ response_data = SampleObjects[3]

SchemaKeys == {"respuesta_texto", "respuesta_tabla", "respuesta_grafica"}

\* C5 (as claimed): a text that is not valid JSON as a whole yields a
\* structure whose narrative field is the text verbatim and whose table and
\* chart fields are present and empty.
C5_NonJsonGetsDefaults ==
    (Normalized /\ ~JsonLoads(response_str).ok) =>
        /\ response_data.t = "obj"
        /\ DOMAIN response_data.v = SchemaKeys
        /\ response_data.v.respuesta_texto = PyText(response_str)
        /\ response_data.v.respuesta_tabla = JArr(<<>>)
        /\ response_data.v.respuesta_grafica = JObj(EmptyDict)

\* neither the fence-stripped text nor the first-brace-to-last-brace
\* substring of s gives a non-empty JSON value
NoJsonValue(s) ==
    LET a == JsonLoads(CleanStr(s)) IN
    IF a.ok THEN ~Truthy(a.val)
    ELSE \/ Find(s) = 0
         \/ LET b == JsonLoads(JsonCandidate(s)) IN ~b.ok \/ ~Truthy(b.val)

\* C5 (amended): when neither stage finds a non-empty JSON value, the result
\* is the object holding the narrative field alone, equal to the input text
\* verbatim; the table and chart fields are absent.
C5_FallbackWrapsVerbatim ==
    (Normalized /\ NoJsonValue(response_str)) =>
        /\ response_data.t = "obj"
        /\ DOMAIN response_data.v = {"respuesta_texto"}
        /\ response_data.v.respuesta_texto = PyText(response_str)

C5_Witness ==
    /\ response_str = <<" ", "{", "j", "}", " ">>
    /\ norm_stage = "c"
    /\ response_data.v.respuesta_texto.v = response_str

-----------------------------------------------------------------------------
(* Claims about the Conversation Agent, checked under Spec *)

\* the last request was a query that reached agent.query
Asked == last_call = "query" /\ agent_ready /\ question # NoQuestion

LastOf(h) == h[Len(h)]

\* C6 (as claimed): after an ask to which the runtime returned a history,
\* the local history is the returned one and the text returned is the final
\* entry's content, or the final entry itself rendered as text when it
\* exposes no content.
C6_ReturnsFinalEntry ==
    (Asked /\ runtime_response.kind = "dict") =>
        /\ chat_history = runtime_response.messages
        /\ ret.text = IF LastOf(runtime_response.messages).form \in {"obj", "dict"}
                      THEN LastOf(runtime_response.messages).content
                      ELSE ReprEntry(LastOf(runtime_response.messages))

\* C6 (amended): an ask hands the runtime the history with the user entry
\* appended; the returned history replaces the local one and the text
\* returned is the final entry's content, or the whole response rendered as
\* text when the final entry exposes no content; a response without a
\* message list leaves the history with the question appended.
C6_Ask ==
    [][(last_call' = "query" /\ agent_ready /\ question' # NoQuestion) =>
         /\ sent' = Append(chat_history, UserEntry(question'))
         /\ runtime_response'.kind = "dict" =>
              /\ chat_history' = runtime_response'.messages
              /\ ret'.text =
                   IF LastOf(runtime_response'.messages).form \in {"obj", "dict"}
                   THEN LastOf(runtime_response'.messages).content
                   ELSE PyStr(runtime_response')
         /\ runtime_response'.kind = "other" =>
              /\ chat_history' = sent'
              /\ ret'.text = PyStr(runtime_response')]_vars

C6_Witness ==
    /\ Asked
    /\ runtime_response.kind = "dict"
    /\ LastOf(runtime_response.messages).form = "bare"
    /\ Len(chat_history) = MaxHist
    /\ chat_history = runtime_response.messages
    /\ ret.text = PyStr(runtime_response)

\* C7: after a reset the history is empty, and an ask served right after a
\* reset hands the runtime exactly the user entry of its question.
C7_ResetThenAsk ==
    agent_ready =>
        /\ last_call = "reset" => chat_history = <<>>
        /\ (Asked /\ prev_call = "reset") => sent = <<UserEntry(question)>>

C7_Witness ==
    /\ Asked
    /\ prev_call = "reset"
    /\ sent = <<UserEntry(question)>>
    /\ Len(chat_history) >= 2

-----------------------------------------------------------------------------
(* Claims about the Analytics Engine (under SpecEngine) *)

ExactlyOneDataset == IsNone(searches_df) # IsNone(bookings_df)

\* C1: an operation called on an engine holding exactly one of the two
\* datasets returns a partial report or an unavailability string and never
\* raises.
C1_OneDatasetNeverRaises ==
    (ExactlyOneDataset /\ report.op # "none") => report.kind # "raise"

\* C2: no report operation changes the searches or the bookings record set:
\* rows and columns stay what load-time preprocessing left.
C2_ReportsArePureReads ==
    [][searches_df' = searches_df /\ bookings_df' = bookings_df]_vars

FunnelReported == report.op = "funnel" /\ report.kind = "report"

\* x is exactly booked/searched*100 when searched > 0 and exactly 0 otherwise
RateIs(x, booked, searched) ==
    /\ ~IsNaN(x)
    /\ IF searched > 0 THEN x.num * searched = 100 * booked * x.den
       ELSE x.num = 0

\* C8: the funnel's overall conversion rate is booked/searched*100 when
\* searched > 0 and 0 when searched = 0, the same holds for every country
\* it lists, and the funnel never fails on a division by zero.
C8_ConversionRate ==
    /\ FunnelReported =>
          /\ report.total_pasajeros_buscados = TotalSearches(searches_df)
          /\ report.total_pasajeros_reservados = TotalBookings(bookings_df)
          /\ RateIs(report.conversion_rate, report.total_pasajeros_reservados,
                    report.total_pasajeros_buscados)
          /\ \A c \in DOMAIN report.analisis_por_origen :
                RateIs(report.analisis_por_origen[c].conv,
                       report.analisis_por_origen[c].reservas,
                       report.analisis_por_origen[c].busquedas)
    /\ (report.op = "funnel" /\ report.kind = "raise")
          => report.error # "ZeroDivisionError"

\* a funnel over searches that total no passenger and bookings that do, with
\* a country whose searches total no passenger either
C8_Witness ==
    /\ FunnelReported
    /\ report.total_pasajeros_buscados = 0
    /\ report.total_pasajeros_reservados > 0
    /\ \E c \in DOMAIN report.analisis_por_origen :
          /\ report.analisis_por_origen[c].busquedas = 0
          /\ report.analisis_por_origen[c].reservas > 0

Listed(entries, tipo) == \E i \in 1..Len(entries) : entries[i] = tipo
RateEquals(x, c) == ~IsNaN(x) /\ x.num = c * x.den

\* C9: the opportunities hold the "general conversion low" entry iff the
\* overall rate is below 30 and the "significant gap" entry iff it is below
\* 50, independently: 25 gives both, 40 only the gap, 60 none.
C9_Opportunities ==
    FunnelReported =>
        /\ Listed(report.oportunidades, "Conversion general baja")
              <=> Below(report.conversion_rate, 30)
        /\ Listed(report.oportunidades, "Gap de conversion significativo")
              <=> Below(report.conversion_rate, 50)
        /\ RateEquals(report.conversion_rate, 25) =>
              report.oportunidades = <<"Conversion general baja",
                                       "Gap de conversion significativo">>
        /\ RateEquals(report.conversion_rate, 40) =>
              report.oportunidades = <<"Gap de conversion significativo">>
        /\ RateEquals(report.conversion_rate, 60) => report.oportunidades = <<>>

\* a funnel whose overall rate is exactly 25
C9_Witness ==
    /\ FunnelReported
    /\ RateEquals(report.conversion_rate, 25)
    /\ Len(report.oportunidades) = 2

\* the percentage fields of a report
PctFields(r) ==
    IF r.kind # "report" THEN {}
    ELSE CASE r.op = "demografico" -> {r.porcentajes[k] : k \in DOMAIN r.porcentajes}
           [] r.op = "economico" ->
                {r.preferencias_cabina[i].porcentaje_premium :
                    i \in DOMAIN r.preferencias_cabina}
           [] r.op = "funnel" ->
                {r.tasa_conversion}
                  \cup {r.analisis_por_origen[c].conversion :
                           c \in DOMAIN r.analisis_por_origen}
           [] r.op = "recomendar" -> {x.penetracion : x \in r.segmentos_prioritarios}
           [] OTHER -> {}

\* the string matches ^\d+\.\d%$
OneDecimalPct(p) == ~p.nan /\ p.places = 1 /\ p.int >= 0 /\ p.frac \in 0..9

\* C10: every percentage field of every report is a string of digits, a
\* point, exactly one decimal and a trailing percent sign.
C10_OneDecimalEverywhere == \A p \in PctFields(report) : OneDecimalPct(p)

-----------------------------------------------------------------------------
(* Claims about the documented scenarios (under SpecScenario) *)

BothOpportunities ==
    <<"Conversion general baja", "Gap de conversion significativo">>

\* C11: the funnel's unconverted count is the sum of party size over the
\* searches minus the sum of ond_pax over the bookings; 100 searched and 25
\* booked passengers give "25.00%", 75 unconverted and both opportunities.
C11_FunnelScenario ==
    FunnelReported =>
        /\ report.busquedas_sin_convertir =
              ColSum(searches_df, "nb_pax_together") - ColSum(bookings_df, "ond_pax")
        /\ (ColSum(searches_df, "nb_pax_together") = 100
              /\ ColSum(bookings_df, "ond_pax") = 25) =>
                /\ report.tasa_conversion =
                      [nan |-> FALSE, int |-> 25, frac |-> 0, places |-> 2]
                /\ report.busquedas_sin_convertir = 75
                /\ report.oportunidades = BothOpportunities

\* the funnel of 100 searched passengers and one booking of 25 passengers
C11_Witness ==
    /\ FunnelReported
    /\ NRows(bookings_df) = 1
    /\ report.total_pasajeros_buscados = 100
    /\ report.total_pasajeros_reservados = 25
    /\ report.busquedas_sin_convertir = 75
    /\ report.tasa_conversion.int = 25
    /\ report.oportunidades = BothOpportunities

EconomicoReported == report.op = "economico" /\ report.kind = "report"

CabinTable == [Y |-> "Economy", W |-> "Premium Economy", C |-> "Business", F |-> "First"]
CabinLabel(k) == IF k \in DOMAIN CabinTable THEN CabinTable[k] ELSE k

\* the one-decimal percentage p is num/den*100 rounded to one decimal
IsOneDecimalOf(p, num, den) ==
    LET tenths == 10 * p.int + p.frac
        diff == tenths * den - 1000 * num
    IN  /\ ~p.nan
        /\ p.places = 1
        /\ 2 * (IF diff >= 0 THEN diff ELSE -diff) <= den

\* C12: the premium share is (count of C + count of F) over the count of
\* all cabin codes as a one-decimal percentage, every code present is listed
\* with its count under its label of the fixed table, or under itself when
\* the table lacks it; {Y: 700, C: 300} gives "30.0%".
C12_CabinShare ==
    (EconomicoReported /\ NRows(bookings_df) > 0) =>
        /\ Len(report.preferencias_cabina) = 1
        /\ LET cabina == report.preferencias_cabina[1]
               codes == ColValues(bookings_df, "ond_cab_class")
           IN  /\ IsOneDecimalOf(cabina.porcentaje_premium,
                     CountEq(bookings_df, "ond_cab_class", "C")
                       + CountEq(bookings_df, "ond_cab_class", "F"),
                     NRows(bookings_df))
               /\ DOMAIN cabina.distribucion = {CabinLabel(k) : k \in codes}
               /\ \A k \in codes :
                     cabina.distribucion[CabinLabel(k)]
                       = CountEq(bookings_df, "ond_cab_class", k)
               /\ (CountEq(bookings_df, "ond_cab_class", "Y") = 700
                     /\ CountEq(bookings_df, "ond_cab_class", "C") = 300
                     /\ NRows(bookings_df) = 1000) =>
                       cabina.porcentaje_premium =
                           [nan |-> FALSE, int |-> 30, frac |-> 0, places |-> 1]

\* the report over cabins {Y: 700, C: 300}
C12_Witness ==
    /\ EconomicoReported
    /\ NRows(bookings_df) = 1000
    /\ report.preferencias_cabina[1].distribucion = [Economy |-> 700, Business |-> 300]
    /\ report.preferencias_cabina[1].porcentaje_premium.int = 30

\* the bookings whose price is above zero
Priced == {i \in 1..NRows(bookings_df) : bookings_df.rows[i].avg_indicative_price > 0}
PriceOf(i) == bookings_df.rows[i].avg_indicative_price

\* the float x equals the fraction num/den
IsFraction(x, num, den) == ~IsNaN(x) /\ x.num * den = num * x.den

\* the float m is a median of the prices above zero: at most half of them
\* lie below it and at most half above
IsMedianOfPriced(m) ==
    /\ ~IsNaN(m)
    /\ 2 * Cardinality({i \in Priced : PriceOf(i) * m.den < m.num}) <= Cardinality(Priced)
    /\ 2 * Cardinality({i \in Priced : PriceOf(i) * m.den > m.num}) <= Cardinality(Priced)

\* the scenario: prices [100 x 5, 500 x 5], one passenger each
TenPrices ==
    /\ NRows(bookings_df) = 10
    /\ Cardinality({i \in 1..10 : PriceOf(i) = 100}) = 5
    /\ Cardinality({i \in 1..10 : PriceOf(i) = 500}) = 5
    /\ \A i \in 1..10 : bookings_df.rows[i].ond_pax = 1

\* C14: price mean and median are over the bookings with price > 0 only and
\* total revenue is the sum of price times ond_pax over the bookings; prices
\* [100 x 5, 500 x 5] with one passenger each give mean 300, median 300 and
\* revenue 3000.
C14_PriceStatistics ==
    (EconomicoReported /\ Priced # {}) =>
        /\ Len(report.estructura_precios) = 1
        /\ Len(report.revenue) = 1
        /\ IsFraction(report.estructura_precios[1].precio_promedio_usd,
                      SumSeq([i \in 1..NRows(bookings_df) |->
                                IF i \in Priced THEN PriceOf(i) ELSE 0]),
                      Cardinality(Priced))
        /\ IsMedianOfPriced(report.estructura_precios[1].precio_mediana_usd)
        /\ HasCol(bookings_df, "ond_pax") =>
              report.revenue[1].revenue_total_usd =
                  SumSeq([i \in 1..NRows(bookings_df) |->
                            PriceOf(i) * bookings_df.rows[i].ond_pax])
        /\ TenPrices =>
              /\ RateEquals(report.estructura_precios[1].precio_promedio_usd, 300)
              /\ RateEquals(report.estructura_precios[1].precio_mediana_usd, 300)
              /\ report.revenue[1].revenue_total_usd = 3000

\* the report over the ten bookings of the scenario
C14_Witness ==
    /\ EconomicoReported
    /\ TenPrices
    /\ RateEquals(report.estructura_precios[1].precio_promedio_usd, 300)
    /\ RateEquals(report.estructura_precios[1].precio_mediana_usd, 300)
    /\ report.revenue[1].revenue_total_usd = 3000

-----------------------------------------------------------------------------
(* Further claims about the Analytics Engine (under SpecEngine) *)

TemporalReported == report.op = "temporal" /\ report.kind = "report"

\* the searches whose stay_duration lies in lo..hi
StaysIn(lo, hi) ==
    {i \in 1..NRows(searches_df) :
        /\ searches_df.rows[i].stay_duration >= lo
        /\ searches_df.rows[i].stay_duration <= hi}

\* the searches whose stay_duration is at least lo
StaysFrom(lo) ==
    {i \in 1..NRows(searches_df) : searches_df.rows[i].stay_duration >= lo}

\* C13: a search whose stay_duration is -1 is in none of the three
\* stay-duration buckets and not in the mean; the buckets count exactly the
\* stays of 1-3, of 4-7 and of 8 or more nights.
C13_StayBuckets ==
    (TemporalReported /\ ~IsNone(searches_df)) =>
        /\ Len(report.duracion_estancia_busquedas) = 1
        /\ LET d == report.duracion_estancia_busquedas[1] IN
           /\ d.estancias_cortas_1_3noches = Cardinality(StaysIn(1, 3))
           /\ d.estancias_medias_4_7noches = Cardinality(StaysIn(4, 7))
           /\ d.estancias_largas_7plus = Cardinality(StaysFrom(8))
           /\ StaysFrom(0) # {} =>
                 d.promedio_noches =
                     Ratio(SumSeq([i \in 1..NRows(searches_df) |->
                              IF i \in StaysFrom(0)
                              THEN searches_df.rows[i].stay_duration ELSE 0]),
                           Cardinality(StaysFrom(0)))

\* a dataset that is present and has every raw column
FullSearches == ~IsNone(searches_df) /\ RawSearchCols \subseteq searches_df.cols
FullBookings == ~IsNone(bookings_df) /\ RawBookingCols \subseteq bookings_df.cols

\* one of the filtered subsets is empty: no booking, no booking with a price
\* above zero, no booking with days at destination, no search with a stay
EmptySubset ==
    \/ /\ FullBookings
       /\ \/ NRows(bookings_df) = 0
          \/ Priced = {}
          \/ \A i \in 1..NRows(bookings_df) :
                 bookings_df.rows[i].days_at_destination <= 0
    \/ /\ FullSearches
       /\ StaysFrom(0) = {}

\* the float aggregates of a report
FloatAggregates(r) ==
    IF r.kind # "report" THEN {}
    ELSE CASE r.op = "demografico" ->
                {r.tamano_grupo[i].promedio_pasajeros : i \in DOMAIN r.tamano_grupo}
           [] r.op = "temporal" ->
                {r.lead_time_busquedas[i].promedio_dias : i \in DOMAIN r.lead_time_busquedas}
                  \cup {r.duracion_estancia_busquedas[i].promedio_noches :
                           i \in DOMAIN r.duracion_estancia_busquedas}
                  \cup {r.duracion_estancia_reservas[i].promedio_noches :
                           i \in DOMAIN r.duracion_estancia_reservas}
           [] r.op = "economico" ->
                UNION {{r.estructura_precios[i].precio_promedio_usd,
                        r.estructura_precios[i].precio_mediana_usd,
                        r.estructura_precios[i].precio_min_usd,
                        r.estructura_precios[i].precio_max_usd} :
                          i \in DOMAIN r.estructura_precios}
                  \cup {r.revenue[i].revenue_promedio_por_reserva : i \in DOMAIN r.revenue}
           [] r.op = "funnel" -> {r.conversion_rate}
           [] OTHER -> {}

\* C15: with the datasets an operation needs present but a filtered subset
\* empty, no operation raises and every aggregate it reports over the
\* subset is a defined number.
C15_EmptySubsetsDefined ==
    (FullBookings /\ (IsNone(searches_df) \/ FullSearches) /\ EmptySubset) =>
        /\ report.kind # "raise"
        /\ \A x \in FloatAggregates(report) : ~IsNaN(x)
        /\ \A p \in PctFields(report) : ~p.nan

\* both datasets hold records and one lacks its passenger-count column
MissingPassengerColumn ==
    /\ ~IsNone(searches_df) /\ NRows(searches_df) > 0
    /\ ~IsNone(bookings_df) /\ NRows(bookings_df) > 0
    /\ ~HasCol(searches_df, "nb_pax_together") \/ ~HasCol(bookings_df, "ond_pax")

\* C16: with an optional column absent no operation raises; the funnel over
\* searches without nb_pax_together, or bookings without ond_pax, takes the
\* row count for that total and still returns its report, origin-country
\* columns present or not.
C16_MissingColumnsTolerated ==
    MissingPassengerColumn =>
        /\ report.kind # "raise"
        /\ report.op = "funnel" =>
              /\ ~HasCol(searches_df, "nb_pax_together") =>
                    report.total_pasajeros_buscados = NRows(searches_df)
              /\ ~HasCol(bookings_df, "ond_pax") =>
                    report.total_pasajeros_reservados = NRows(bookings_df)

-----------------------------------------------------------------------------
(* Claims about the endpoints (under Spec) *)

IsErrorObject(body) == body.t = "obj" /\ DOMAIN body.v = {"error"}

\* C17: every query request is answered with the normalised structure or
\* with an error object; without an agent, or without a question, the answer
\* is an error object and the agent is not invoked nor the history changed;
\* an agent call that raises is answered with an error object; a reset
\* leaves the history empty.
C17_ObjectOrError ==
    [][/\ last_call' = "query" =>
             \/ IsErrorObject(http'.body)
             \/ http'.status = 200 /\ http'.body = response_data'
       /\ (last_call' = "query" /\ (~agent_ready \/ question' = NoQuestion)) =>
             /\ IsErrorObject(http'.body)
             /\ chat_history' = chat_history
             /\ sent' = sent
             /\ runtime_response' = runtime_response
       /\ (last_call' = "query" /\ agent_ready /\ question' # NoQuestion
             /\ ret'.raised) => IsErrorObject(http'.body)
       /\ (last_call' = "reset" /\ agent_ready) => chat_history' = <<>>]_vars

-----------------------------------------------------------------------------
(* Claims about requests served at once (under SpecConc) *)

\* C18: asks served at once, or an ask and a reset, race on the history:
\* the history an ask installs is the runtime's answer to the messages that
\* ask handed over, whatever was written to the history meanwhile, and a
\* reset empties it only until then; so a question can be lost and a reset
\* overwritten.
C18_HistoryRace ==
    [][\A c \in Callers :
         /\ (calls[c].pc = "invoked" /\ calls'[c].pc = "done"
               /\ calls'[c].returned.kind = "dict") =>
                 /\ chat_history' = calls'[c].returned.messages
                 /\ SubSeq(chat_history', 1, Len(calls[c].snapshot)) = calls[c].snapshot
                 /\ Len(chat_history') = Len(calls[c].snapshot) + 1
         /\ (calls[c].pc = "invoked" /\ calls'[c].pc = "done"
               /\ calls'[c].returned.kind # "dict") => chat_history' = chat_history
         /\ (calls[c].op = "reset" /\ calls[c].pc = "start" /\ calls'[c].pc = "done")
               => chat_history' = <<>>]_vars

\* both races have been seen: after two asks completed the history lacked
\* one of their questions, and after a reset and an ask completed, the
\* reset having run while the ask was in flight, the history was not empty
C18_Witness ==
    /\ observed = {"lost_update", "reset_overwritten"}
    /\ AllDone(calls)

-----------------------------------------------------------------------------
(* Claims about the recommendations and the campaign strategy (under        *)
(* SpecEngine)                                                              *)

EstrategiaReported == report.op = "estrategia"
LeadTimeData(df) == ~IsNone(df) /\ HasCol(df, "lead_time")
Calendario == "Calendario de campanas basado en anticipacion"

\* C19: whenever the searches carry lead-time data, with bookings or without,
\* the campaign strategy is a report that lists the lead-time calendar tactic,
\* with the campaigns starting at the mean lead time (in whole days) plus 14
\* days before high season.
C19_CalendarTacticAlways ==
    (EstrategiaReported /\ LeadTimeData(searches_df)) =>
        /\ report.kind = "report"
        /\ \E i \in DOMAIN report.tacticas_especificas :
               report.tacticas_especificas[i] = Calendario
        /\ report.inicio_campanas =
               << InicioCampanas(Mean(Column(searches_df, "lead_time"))) >>

RecomendarReported == report.op = "recomendar"
RowRate == ConversionRate(NRows(bookings_df), NRows(searches_df))
\* ten times searches * 0.3 - bookings, over the records of both datasets
TenGaps == 3 * NRows(searches_df) - 10 * NRows(bookings_df)
QuickWinDue == ~IsNone(searches_df) /\ Below(RowRate, 40)

\* C20 (as claimed): the audience recommendation lists the quick win exactly
\* when both datasets are present and the conversion rate is below 40%, and
\* the volume it reports is searches * 0.3 - bookings, zero or negative when
\* the rate is 30% or more.
C20_ExactVolume ==
    RecomendarReported =>
        /\ IsNone(bookings_df) => report.kind = "unavailable"
        /\ ~IsNone(bookings_df) =>
              /\ report.kind = "report"
              /\ report.quick_wins # <<>> <=> QuickWinDue
              /\ QuickWinDue =>
                    /\ 10 * report.quick_wins[1].gap_usuarios = TenGaps
                    /\ ~Below(RowRate, 30) => report.quick_wins[1].gap_usuarios <= 0

\* C20 (amended): the quick win is listed exactly when both datasets are
\* present and the conversion rate over records is below 40%; its volume is
\* searches * 0.3 - bookings cut to a whole number towards zero, never
\* raised to zero, and zero or negative when the rate is 30% or more.
C20_QuickWin ==
    RecomendarReported =>
        /\ IsNone(bookings_df) => report.kind = "unavailable"
        /\ ~IsNone(bookings_df) =>
              /\ report.kind = "report"
              /\ report.quick_wins # <<>> <=> QuickWinDue
              /\ QuickWinDue =>
                    LET gap == report.quick_wins[1].gap_usuarios IN
                    /\ Len(report.quick_wins) = 1
                    /\ TenGaps >= 0 => (10 * gap <= TenGaps /\ TenGaps < 10 * gap + 10)
                    /\ TenGaps < 0 => (10 * gap >= TenGaps /\ TenGaps > 10 * gap - 10)
                    /\ ~Below(RowRate, 30) => gap <= 0

\* a quick win reported at a conversion rate between 30% and 40%, with a
\* negative volume
C20_Witness ==
    /\ RecomendarReported
    /\ report.kind = "report"
    /\ QuickWinDue
    /\ ~Below(RowRate, 30)
    /\ report.quick_wins # <<>>
    /\ report.quick_wins[1].gap_usuarios < 0

-----------------------------------------------------------------------------
(* Claims about the channels of the campaign strategy (under SpecScenario)  *)

OnlineBookings ==
    Cardinality({i \in 1..NRows(bookings_df) :
                    bookings_df.rows[i].online_offline = "online"})

\* C21: a campaign strategy over bookings that carry the online/offline tag
\* recommends exactly the five digital channels when more than 60% of the
\* bookings are online, and otherwise (at exactly 60% too) exactly the three
\* channels with the travel agencies; without the tag it recommends none.
C21_Channels ==
    (EstrategiaReported /\ report.kind = "report") =>
        LET canales == report.canales_recomendados IN
        /\ HasCol(bookings_df, "online_offline") =>
              IF 100 * OnlineBookings > 60 * NRows(bookings_df)
              THEN /\ Len(canales) = 5
                   /\ canales = CanalesDigitales
                   /\ \A i \in 1..5 : canales[i] # "Agencias de viaje"
              ELSE /\ Len(canales) = 3
                   /\ canales = CanalesConAgencias
                   /\ \E i \in 1..3 : canales[i] = "Agencias de viaje"
        /\ ~HasCol(bookings_df, "online_offline") => canales = <<>>

\* a strategy over five bookings of which exactly three are online: the three
\* channels with the agencies
C21_Witness ==
    /\ EstrategiaReported
    /\ report.kind = "report"
    /\ HasCol(bookings_df, "online_offline")
    /\ NRows(bookings_df) = 5
    /\ OnlineBookings = 3
    /\ Len(report.canales_recomendados) = 3

-----------------------------------------------------------------------------
(* Claims about the revenue of the pricing report (under SpecEngine) *)

\* the passengers of booking i: its ond_pax, or one where the column is absent
PaxOf(i) == IF HasCol(bookings_df, "ond_pax") THEN bookings_df.rows[i].ond_pax ELSE 1

\* the revenue of the bookings with a price above zero among those that
\* satisfy Test
ValidRevenue(Test(_), weight(_)) ==
    SumSeq([i \in 1..NRows(bookings_df) |->
              IF i \in Priced /\ Test(i) THEN PriceOf(i) * weight(i) ELSE 0])

\* the bookings with one passenger on every booking, and without the column
WithOnePassengerEach ==
    [bookings_df EXCEPT
        !.cols = @ \cup {"ond_pax"},
        !.rows = [i \in 1..NRows(bookings_df) |->
                     [bookings_df.rows[i] EXCEPT !.ond_pax = 1]]]
WithoutPassengers == [bookings_df EXCEPT !.cols = @ \ {"ond_pax"}]

\* C22: in the pricing report a booking whose price is zero or less adds
\* nothing to the total revenue, to the revenue per booking or to the revenue
\* of its country, with the ond_pax column or without it; and the total
\* revenue with one passenger on every booking is the total revenue without
\* the column.
C22_InvalidPricesAddNothing ==
    (EconomicoReported /\ HasCol(bookings_df, "avg_indicative_price")) =>
        LET Every(i) == TRUE
            Once(i) == 1
            total == ValidRevenue(Every, PaxOf)
        IN  /\ report.revenue[1].revenue_total_usd = total
            /\ NRows(bookings_df) > 0 =>
                  IsFraction(report.revenue[1].revenue_promedio_por_reserva,
                             total, NRows(bookings_df))
            /\ \A c \in DOMAIN report.top_paises_revenue :
                  LET From(i) == bookings_df.rows[i].trip_board_ctry_code = c
                  IN  report.top_paises_revenue[c].revenue_total = ValidRevenue(From, Once)
            /\ TotalRevenue(WithOnePassengerEach) = TotalRevenue(WithoutPassengers)

-----------------------------------------------------------------------------
(* Claims about an ask during which the runtime raises (under Spec) *)

AskServed == last_call' = "query" /\ agent_ready /\ question' # NoQuestion

\* C23: when the runtime raises during an ask, the exception leaves the ask
\* (the runtime having been handed the history and the question once), the
\* history is left exactly one entry longer, the user entry of the question;
\* and the ask that follows hands the runtime a history whose last two
\* entries are user entries.
C23_RaiseKeepsQuestion ==
    [][/\ (AskServed /\ runtime_response'.kind = "raise") =>
            /\ ret'.raised
            /\ ret'.text = <<>>
            /\ sent' = Append(chat_history, UserEntry(question'))
            /\ chat_history' = Append(chat_history, UserEntry(question'))
            /\ Len(chat_history') = Len(chat_history) + 1
            /\ http'.status = 500
       /\ (AskServed /\ Asked /\ ret.raised /\ chat_history = ret.hist) =>
            /\ Len(sent') = Len(chat_history) + 1
            /\ Len(sent') >= 2
            /\ sent'[Len(sent') - 1] = LastOf(chat_history)
            /\ sent'[Len(sent') - 1].role = "user"
            /\ sent'[Len(sent')] = UserEntry(question')]_vars

\* an ask during which the runtime raised: the request fails, and the
\* history, handed to the runtime as it is left, ends in two user entries,
\* the last one the question of this ask
C23_Witness ==
    /\ Asked
    /\ runtime_response.kind = "raise"
    /\ ret.raised
    /\ http.status = 500
    /\ chat_history = sent
    /\ Len(chat_history) >= 2
    /\ chat_history[Len(chat_history) - 1].role = "user"
    /\ LastOf(chat_history) = UserEntry(question)

-----------------------------------------------------------------------------
(* Claims about the conversion rate across the reports (under SpecEngine) *)

\* the funnel over the datasets held, and the rate it reports
FunnelNow == analisis_conversion_funnel(searches_df, bookings_df)
FunnelRate == FunnelNow.conversion_rate
BothReported(op) ==
    /\ report.op = op /\ report.kind = "report"
    /\ ~IsNone(searches_df) /\ ~IsNone(bookings_df)
    /\ FunnelNow.kind = "report"

\* C24: over any two datasets the audience recommendation lists its quick
\* win, and the campaign strategy its retargeting tactic and its KPI
\* benchmark, by the conversion rate that the funnel reports over the same
\* datasets: booked passengers over searched passengers.
C24_SameConversionRate ==
    /\ BothReported("recomendar") =>
          (report.quick_wins # <<>> <=> Below(FunnelRate, 40))
    /\ BothReported("estrategia") =>
          /\ Listed(report.tacticas_especificas, "Campana de retargeting agresiva")
                <=> Below(FunnelRate, 35)
          /\ report.kpi_conversion = <<FormatPct(FunnelRate, 1)>>

=============================================================================
